---- MODULE Spec2Model ----
(***************************************************************************)
(* MarkdownParser of MarkMirror (src/src/utils/markdownParser.js).         *)
(*                                                                         *)
(* A JavaScript string is a sequence of one-character strings, so that     *)
(* the regular expressions of the parser are computed character by         *)
(* character, as the engine computes them.  The parser is the state        *)
(* machine of parse / processLines: one action per arm of the dispatcher   *)
(* loop, the block processors and the inline engine being operators.       *)
(***************************************************************************)
EXTENDS Integers, Sequences, FiniteSets, TLC

VARIABLES
    options,    \* this.options of the parser instance
    markdown,   \* the argument of the running parse call
    pc,         \* "idle" | "loop" | "done": position inside parse
    lines,      \* processLines: the line array
    i,          \* processLines: the line index
    result,     \* processLines: the array of block HTML strings
    last,       \* the value the dispatcher's latest step got from a processor
    called,     \* the methods the call has entered
    ret         \* the value parse returned

vars == <<options, markdown, pc, lines, i, result, last, called, ret>>

(***************************************************************************)
(* Bounds of the model.                                                    *)
(***************************************************************************)
\* the lines of a document over Pool
MaxLines == 3

\* the lines of a document over SpanPool, EdgePool or HazardPool
MaxEdgeLines == 2

\* the dispatcher of a stuck document is cut off after this many blocks
MaxResult == MaxLines + 2

(***************************************************************************)
(* Strings.                                                                *)
(***************************************************************************)
\* JavaScript \s and String.prototype.trim, on the characters of the model
IsSpace(c) == c \in {" ", "\t"}

\* JavaScript \d
Digits == {"0", "1", "2", "3", "4", "5", "6", "7", "8", "9"}

\* JavaScript \w: [A-Za-z0-9_]
WordChars ==
    {"0", "1", "2", "3", "4", "5", "6", "7", "8", "9", "_",
     "a", "b", "c", "d", "e", "f", "g", "h", "i", "j", "k", "l", "m",
     "n", "o", "p", "q", "r", "s", "t", "u", "v", "w", "x", "y", "z",
     "A", "B", "C", "D", "E", "F", "G", "H", "I", "J", "K", "L", "M",
     "N", "O", "P", "Q", "R", "S", "T", "U", "V", "W", "X", "Y", "Z"}

IsWord(c) == c \in WordChars

\* s.substring(p - 1): the characters of s from position p on
From(s, p) == SubSeq(s, p, Len(s))

\* the literal lit stands in s at position p
At(s, p, lit) ==
    /\ p >= 1
    /\ p + Len(lit) - 1 <= Len(s)
    /\ \A k \in 1..Len(lit) : s[p + k - 1] = lit[k]

\* the least element of S, d when S is empty
FirstOr(S, d) == IF S = {} THEN d ELSE CHOOSE x \in S : \A y \in S : x <= y

\* the first position >= p of s that holds character c, Len(s) + 1 if none:
\* where a run [^c]* that starts at p ends
FirstIndexOf(s, p, c) == FirstOr({q \in p..Len(s) : s[q] = c}, Len(s) + 1)

\* the first position >= p of s that holds no whitespace: where \s* ends
SkipSpace(s, p) == FirstOr({q \in p..Len(s) : ~IsSpace(s[q])}, Len(s) + 1)

\* the first position >= p of s that holds no character of set C
SkipChars(s, p, C) == FirstOr({q \in p..Len(s) : s[q] \notin C}, Len(s) + 1)

\* s contains the substring lit
Includes(s, lit) == \E p \in 1..Len(s) : At(s, p, lit)

\* line.trim() === ''
IsBlank(s) == \A k \in 1..Len(s) : IsSpace(s[k])

\* s.trim()
Trim(s) ==
    IF IsBlank(s) THEN <<>>
    ELSE LET a == SkipSpace(s, 1)
             b == CHOOSE q \in 1..Len(s) :
                    /\ ~IsSpace(s[q])
                    /\ \A r \in (q + 1)..Len(s) : IsSpace(s[r])
         IN  SubSeq(s, a, b)

\* array.join(sep)
RECURSIVE Join(_, _)
Join(ss, sep) ==
    IF Len(ss) = 0 THEN <<>>
    ELSE IF Len(ss) = 1 THEN ss[1]
    ELSE ss[1] \o sep \o Join(Tail(ss), sep)

\* s.split(c) for a one-character separator
RECURSIVE Split(_, _)
Split(s, c) ==
    LET q == FirstIndexOf(s, 1, c)
    IN  IF q > Len(s) THEN <<s>>
        ELSE <<SubSeq(s, 1, q - 1)>> \o Split(From(s, q + 1), c)

NL == <<"\n">>

\* the grave accent U+0060, the one character the string literals of the
\* tools cannot hold: it is this value wherever a string contains it
Backtick == "U+0060"

(***************************************************************************)
(* Literal pieces of the HTML the parser writes.                           *)
(***************************************************************************)
Open(tag) == <<"<">> \o tag \o <<">">>
Close(tag) == <<"<", "/">> \o tag \o <<">">>

\* the tag names the parser writes
Tag ==
    [p |-> <<"p">>,
     code |-> <<"c", "o", "d", "e">>,
     pre |-> <<"p", "r", "e">>,
     strong |-> <<"s", "t", "r", "o", "n", "g">>,
     em |-> <<"e", "m">>,
     del |-> <<"d", "e", "l">>,
     ul |-> <<"u", "l">>,
     ol |-> <<"o", "l">>,
     li |-> <<"l", "i">>,
     hr |-> <<"h", "r">>,
     table |-> <<"t", "a", "b", "l", "e">>,
     thead |-> <<"t", "h", "e", "a", "d">>,
     tbody |-> <<"t", "b", "o", "d", "y">>,
     tr |-> <<"t", "r">>,
     th |-> <<"t", "h">>,
     td |-> <<"t", "d">>,
     blockquote |-> <<"b", "l", "o", "c", "k", "q", "u", "o", "t", "e">>,
     script |-> <<"s", "c", "r", "i", "p", "t">>]

\* the decimal digit of n, for n in 0..9
Digit(n) == <<"0", "1", "2", "3", "4", "5", "6", "7", "8", "9">>[n + 1]

UpperCase == <<"A", "B", "C", "D", "E", "F", "G", "H", "I", "J", "K", "L", "M",
               "N", "O", "P", "Q", "R", "S", "T", "U", "V", "W", "X", "Y", "Z">>
LowerCase == <<"a", "b", "c", "d", "e", "f", "g", "h", "i", "j", "k", "l", "m",
               "n", "o", "p", "q", "r", "s", "t", "u", "v", "w", "x", "y", "z">>

\* the lower-case form of c: how a regular expression with flag i compares
Folded == [c \in {UpperCase[k] : k \in 1..26} |-> LowerCase[CHOOSE k \in 1..26 : UpperCase[k] = c]]

Lower(c) == IF c \in DOMAIN Folded THEN Folded[c] ELSE c

\* the literal lit stands in s at position p, letter case ignored
AtCI(s, p, lit) ==
    /\ p >= 1
    /\ p + Len(lit) - 1 <= Len(s)
    /\ \A k \in 1..Len(lit) : Lower(s[p + k - 1]) = Lower(lit[k])

(***************************************************************************)
(* escapeHTML: div.textContent = text; return div.innerHTML.  The          *)
(* serialisation of a text node replaces & < > and leaves quotes.          *)
(***************************************************************************)
EscapeChar(c) ==
    CASE c = "&" -> <<"&", "a", "m", "p", ";">>
      [] c = "<" -> <<"&", "l", "t", ";">>
      [] c = ">" -> <<"&", "g", "t", ";">>
      [] OTHER -> <<c>>

\* the text from position p on, escaped: the plain run up to the next
\* special character, the entity, and on behind it
RECURSIVE EscapeFrom(_, _)
EscapeFrom(text, p) ==
    LET q == FirstOr({r \in p..Len(text) : text[r] \in {"&", "<", ">"}},
                     Len(text) + 1)
    IN  IF q > Len(text) THEN From(text, p)
        ELSE SubSeq(text, p, q - 1) \o EscapeChar(text[q])
             \o EscapeFrom(text, q + 1)

\* the text as it is, were nothing escaped
Unescaped(text) == text

escapeHTML(text) == EscapeFrom(text, 1)

(***************************************************************************)
(* The regular expressions of the inline engine.  In each of them a run    *)
(* [^c]+ is followed by the character c, so the run ends at the first c    *)
(* and the match at a position is unique.  A pattern is a record: kind     *)
(* names the expression and tag is the tag name of the passthrough of raw  *)
(* HTML.  MatchEnd is the position after the match of pattern pat at       *)
(* position p of s, 0 when there is none.                                  *)
(***************************************************************************)
Pat(kind) == [kind |-> kind, tag |-> <<>>]

TagPat(tag) == [kind |-> "inlineTag", tag |-> tag]

\* the code span: a backtick, [^backtick]+, a backtick
MatchCode(s, p) ==
    LET q == FirstIndexOf(s, p + 1, Backtick)
    IN  IF At(s, p, <<Backtick>>) /\ q <= Len(s) /\ q > p + 1 THEN q + 1 ELSE 0

\* the second half \(([^)]+)\) of a link or image, the ] standing at q
MatchTarget(s, q) ==
    LET r == FirstIndexOf(s, q + 2, ")")
    IN  IF At(s, q + 1, <<"(">>) /\ r <= Len(s) /\ r > q + 2 THEN r + 1 ELSE 0

\* /\[([^\]]+)\]\(([^)]+)\)/
MatchLink(s, p) ==
    LET q == FirstIndexOf(s, p + 1, "]")
    IN  IF At(s, p, <<"[">>) /\ q <= Len(s) /\ q > p + 1
        THEN MatchTarget(s, q) ELSE 0

\* /!\[([^\]]*)\]\(([^)]+)\)/
MatchImage(s, p) ==
    LET q == FirstIndexOf(s, p + 2, "]")
    IN  IF At(s, p, <<"!", "[">>) /\ q <= Len(s)
        THEN MatchTarget(s, q) ELSE 0

\* /dd([^d]+)dd/ for a two-character delimiter dd: ** __ ~~
MatchDouble(s, p, d) ==
    LET q == FirstIndexOf(s, p + 2, d)
    IN  IF /\ At(s, p, <<d, d>>)
           /\ q <= Len(s) /\ q > p + 2
           /\ At(s, q, <<d, d>>)
        THEN q + 2 ELSE 0

\* /d([^d]+)d/ for a one-character delimiter d: * _
MatchSingle(s, p, d) ==
    LET q == FirstIndexOf(s, p + 1, d)
    IN  IF At(s, p, <<d>>) /\ q <= Len(s) /\ q > p + 1 THEN q + 1 ELSE 0

\* /<[^>]+>/
MatchAngle(s, p) ==
    LET q == FirstIndexOf(s, p + 1, ">")
    IN  IF At(s, p, <<"<">>) /\ q <= Len(s) /\ q > p + 1 THEN q + 1 ELSE 0

\* the second half >([^<]*)</tag> of the passthrough, the > standing at q
MatchTagBody(tag, s, q) ==
    LET r == FirstIndexOf(s, q + 1, "<")
    IN  IF q <= Len(s) /\ AtCI(s, r, Close(tag)) THEN r + Len(tag) + 3 ELSE 0

\* new RegExp('<tag([^>]*)>([^<]*)</tag>', 'gi')
MatchInlineTag(tag, s, p) ==
    IF AtCI(s, p, <<"<">> \o tag)
    THEN MatchTagBody(tag, s, FirstIndexOf(s, p + 1 + Len(tag), ">"))
    ELSE 0

MatchEnd(pat, s, p) ==
    CASE pat.kind = "code" -> MatchCode(s, p)
      [] pat.kind = "image" -> MatchImage(s, p)
      [] pat.kind = "link" -> MatchLink(s, p)
      [] pat.kind = "boldStar" -> MatchDouble(s, p, "*")
      [] pat.kind = "boldUnder" -> MatchDouble(s, p, "_")
      [] pat.kind = "emStar" -> MatchSingle(s, p, "*")
      [] pat.kind = "emUnder" -> MatchSingle(s, p, "_")
      [] pat.kind = "del" -> MatchDouble(s, p, "~")
      [] pat.kind = "angle" -> MatchAngle(s, p)
      [] pat.kind = "inlineTag" -> MatchInlineTag(pat.tag, s, p)

\* <img src="src" alt="alt">, both escaped
ImageHTML(src, alt) ==
    <<"<", "i", "m", "g", " ", "s", "r", "c", "=", "\"">> \o escapeHTML(src) \o <<"\"", " ", "a", "l", "t", "=", "\"">> \o escapeHTML(alt) \o <<"\"", ">">>

\* <a href="url">linkText</a>, both escaped
LinkHTML(linkText, url) ==
    <<"<", "a", " ", "h", "r", "e", "f", "=", "\"">> \o escapeHTML(url) \o <<"\"", ">">> \o escapeHTML(linkText)
    \o Close(<<"a">>)

\* <tag attrs>content</tag>, the tag name as the list spells it, the > of
\* the open tag standing at q
InlineTagHTML(tag, s, p, q, e) ==
    <<"<">> \o tag \o SubSeq(s, p + 1 + Len(tag), q - 1) \o <<">">>
    \o SubSeq(s, q + 1, e - Len(tag) - 4) \o Close(tag)

\* what the replace callback (or replacement string) of pattern pat gives
\* for the match s[p..e-1]
Replacement(pat, s, p, e) ==
    CASE pat.kind = "code" ->
            Open(Tag.code) \o escapeHTML(SubSeq(s, p + 1, e - 2)) \o Close(Tag.code)
      [] pat.kind = "image" ->
            ImageHTML(SubSeq(s, FirstIndexOf(s, p + 2, "]") + 2, e - 2),
                      SubSeq(s, p + 2, FirstIndexOf(s, p + 2, "]") - 1))
      [] pat.kind = "link" ->
            LinkHTML(SubSeq(s, p + 1, FirstIndexOf(s, p + 1, "]") - 1),
                     SubSeq(s, FirstIndexOf(s, p + 1, "]") + 2, e - 2))
      [] pat.kind \in {"boldStar", "boldUnder"} ->
            Open(Tag.strong) \o SubSeq(s, p + 2, e - 3) \o Close(Tag.strong)
      [] pat.kind \in {"emStar", "emUnder"} ->
            Open(Tag.em) \o SubSeq(s, p + 1, e - 2) \o Close(Tag.em)
      [] pat.kind = "del" ->
            Open(Tag.del) \o SubSeq(s, p + 2, e - 3) \o Close(Tag.del)
      [] pat.kind = "angle" -> escapeHTML(SubSeq(s, p, e - 1))
      [] pat.kind = "inlineTag" ->
            InlineTagHTML(pat.tag, s, p,
                          FirstIndexOf(s, p + 1 + Len(pat.tag), ">"), e)

\* the first position >= p of s where pattern pat matches, 0 if none
FirstMatch(pat, s, p) == FirstOr({q \in p..Len(s) : MatchEnd(pat, s, q) # 0}, 0)

\* text.replace(/pat/g, ...) from position p on: the leftmost match
\* s[q..e-1] is replaced and the scan goes on behind it
RECURSIVE ReplaceFrom(_, _, _)
ReplaceFrom(pat, s, p) ==
    LET q == FirstMatch(pat, s, p)
        e == MatchEnd(pat, s, q)
    IN  IF q = 0 THEN From(s, p)
        ELSE SubSeq(s, p, q - 1) \o Replacement(pat, s, q, e)
             \o ReplaceFrom(pat, s, e)

ReplaceAll(pat, s) == ReplaceFrom(pat, s, 1)

allowedInlineTags ==
    << <<"k", "b", "d">>, <<"m", "a", "r", "k">>,
       <<"d", "e", "t", "a", "i", "l", "s">>,
       <<"s", "u", "m", "m", "a", "r", "y">> >>

processInlineCode(text) == ReplaceAll(Pat("code"), text)

processImages(text) == ReplaceAll(Pat("image"), text)

processLinks(text) == ReplaceAll(Pat("link"), text)

\* italic tried before bold
italicBeforeBold(text) ==
    ReplaceAll(Pat("boldUnder"),
        ReplaceAll(Pat("boldStar"),
            ReplaceAll(Pat("emUnder"),
                ReplaceAll(Pat("emStar"), text))))

\* bold with ** and with __, then italic with * and with _
processBoldItalic(text) ==
    ReplaceAll(Pat("emUnder"),
        ReplaceAll(Pat("emStar"),
            ReplaceAll(Pat("boldUnder"),
                ReplaceAll(Pat("boldStar"), text))))

processStrikethrough(text) == ReplaceAll(Pat("del"), text)

\* allowedInlineTags.forEach(tag => ...) from tag k on
RECURSIVE InlineTagsFrom(_, _)
InlineTagsFrom(k, text) ==
    IF k > Len(allowedInlineTags) THEN text
    ELSE InlineTagsFrom(k + 1, ReplaceAll(TagPat(allowedInlineTags[k]), text))

processInlineHTML(text) == InlineTagsFrom(1, text)

\* the link stage run before the image stage
linksBeforeImages(text) ==
    IF Len(text) = 0 THEN <<>>
    ELSE processInlineHTML(
            processStrikethrough(
                processBoldItalic(
                    processImages(
                        processLinks(
                            processInlineCode(text))))))

\* lines 290-300: code, images, links, bold and italic, strikethrough,
\* raw HTML, each stage on the text the stage before it made
processInlineElements(text) ==
    IF Len(text) = 0 THEN <<>>
    ELSE processInlineHTML(
            processStrikethrough(
                processBoldItalic(
                    processLinks(
                        processImages(
                            processInlineCode(text))))))

(***************************************************************************)
(* escapeHTMLInText: protect code, links and images behind placeholder     *)
(* tokens, escape the <...> sequences of the rest, put the spans back.     *)
(***************************************************************************)
\* the placeholder __PROTECTED_index__
Token(index) ==
    <<"_", "_", "P", "R", "O", "T", "E", "C", "T", "E", "D", "_">>
    \o (IF index < 10 THEN <<Digit(index)>>
        ELSE <<Digit(index \div 10), Digit(index % 10)>>)
    \o <<"_", "_">>

\* protectedText.replace(/pat/g, match => { push; return token }) from
\* position p on: out is the text written so far, elems is
\* protectedElements so far, s[q..e-1] the leftmost match
RECURSIVE ProtectFrom(_, _, _, _, _)
ProtectFrom(pat, s, p, out, elems) ==
    LET q == FirstMatch(pat, s, p)
        e == MatchEnd(pat, s, q)
    IN  IF q = 0 THEN [text |-> out \o From(s, p), elems |-> elems]
        ELSE ProtectFrom(pat, s, e,
                         out \o SubSeq(s, p, q - 1) \o Token(Len(elems)),
                         Append(elems, SubSeq(s, q, e - 1)))

\* one protecting replace over the text of st, adding to its elements
Protect(pat, st) == ProtectFrom(pat, st.text, 1, <<>>, st.elems)

\* text.replace(token, element) with a string pattern: the first
\* occurrence only
ReplaceFirst(s, token, element) ==
    LET p == FirstOr({q \in 1..Len(s) : At(s, q, token)}, 0)
    IN  IF p = 0 THEN s
        ELSE SubSeq(s, 1, p - 1) \o element \o From(s, p + Len(token))

\* protectedElements.forEach((element, index) => ...) from index k on
RECURSIVE RestoreFrom(_, _, _)
RestoreFrom(s, elems, k) ==
    IF k > Len(elems) THEN s
    ELSE RestoreFrom(ReplaceFirst(s, Token(k - 1), elems[k]), elems, k + 1)

\* lines 383-401: inline code, then links, then images
ProtectSpans(text) ==
    Protect(Pat("image"),
        Protect(Pat("link"),
            Protect(Pat("code"), [text |-> text, elems |-> <<>>])))

\* lines 404-411: escape the rest, restore the protected elements
EscapeAndRestore(st) == RestoreFrom(ReplaceAll(Pat("angle"), st.text), st.elems, 1)

escapeHTMLInText(text) == EscapeAndRestore(ProtectSpans(text))

(***************************************************************************)
(* The block patterns.  JavaScript indexes lines from 0: lines[k] of the   *)
(* code is lines[k + 1] here, and every index below is the code's.         *)
(***************************************************************************)
\* the group (.+) of /\s+(.+)$/ matched at position a of a line, <<>> when
\* there is no match: \s+ takes the whole run of whitespace and gives its
\* last character back to (.+) when the line ends with the run
SpacedText(s, a) ==
    LET b == SkipSpace(s, a)
    IN  IF b > a /\ b <= Len(s) THEN From(s, b)
        ELSE IF b > a + 1 THEN <<s[Len(s)]>>
        ELSE <<>>

\* a header pattern with no upper limit on the number of #, /^(#+)\s+(.+)$/
unlimitedHeaderMatch(line) ==
    LET h == SkipChars(line, 1, {"#"}) - 1
        text == SpacedText(line, h + 1)
    IN  IF h >= 1 /\ h <= 9 /\ Len(text) > 0
        THEN [level |-> h, text |-> text]
        ELSE [level |-> 0, text |-> <<>>]

\* line.match(/^(#{1,6})\s+(.+)$/): level 0 when there is no match
headerMatch(line) ==
    LET h == SkipChars(line, 1, {"#"}) - 1
        text == SpacedText(line, h + 1)
    IN  IF h >= 1 /\ h <= 6 /\ Len(text) > 0
        THEN [level |-> h, text |-> text]
        ELSE [level |-> 0, text |-> <<>>]

BackTicks == <<Backtick, Backtick, Backtick>>

\* line.match(/^BackTicks/)
IsFenceOpen(line) == At(line, 1, BackTicks)

\* a closing pattern that takes any line that begins with three backticks
BeginsWithBackTicks(line) == At(line, 1, BackTicks)

\* lines[i].match(/^BackTicks\s*$/)
IsFenceClose(line) == At(line, 1, BackTicks) /\ IsBlank(From(line, 4))

\* the group (\w+)? of /^BackTicks(\w+)?/
langMatch(line) == SubSeq(line, 4, SkipChars(line, 4, WordChars) - 1)

isTableRow(line) == Includes(line, <<"|">>) /\ Len(Trim(line)) > 0

\* /^\s*\|?[\s\-\|:]+\|?\s*$/.test(line): one character at least, and
\* every character of the class
isTableSeparator(line) ==
    /\ Len(line) >= 1
    /\ \A k \in 1..Len(line) : IsSpace(line[k]) \/ line[k] \in {"-", "|", ":"}

\* array.filter(cell => cell !== '')
RECURSIVE FilterNonEmpty(_)
FilterNonEmpty(cells) ==
    IF Len(cells) = 0 THEN <<>>
    ELSE IF Len(cells[1]) = 0 THEN FilterNonEmpty(Tail(cells))
    ELSE <<cells[1]>> \o FilterNonEmpty(Tail(cells))

\* parts.map(cell => cell.trim())
TrimAll(parts) == [k \in 1..Len(parts) |-> Trim(parts[k])]

parseTableRow(line) == FilterNonEmpty(TrimAll(Split(line, "|")))

ListMarkers == {"-", "*", "+"}

\* line.match(/^\s*[-*+]\s/) || line.match(/^\s*\d+\.\s/)
IsListStart(line) ==
    LET a == SkipSpace(line, 1)
        d == SkipChars(line, a, Digits)
    IN  \/ /\ a + 1 <= Len(line)
           /\ line[a] \in ListMarkers
           /\ IsSpace(line[a + 1])
        \/ /\ d > a
           /\ d + 1 <= Len(line)
           /\ line[d] = "."
           /\ IsSpace(line[d + 1])

\* the value of a match that failed
NoItem == [type |-> "none", indent |-> 0, text |-> <<>>, checked |-> FALSE]

\* a task pattern that reads every bracket as unchecked
uncheckedTaskMatch(line) ==
    LET a == SkipSpace(line, 1)
        b == SkipSpace(line, a + 1)
    IN  IF /\ a <= Len(line)
           /\ line[a] \in ListMarkers
           /\ b > a + 1
           /\ b + 2 <= Len(line)
           /\ line[b] = "["
           /\ line[b + 1] \in {" ", "x"}
           /\ line[b + 2] = "]"
           /\ Len(SpacedText(line, b + 3)) > 0
        THEN [type |-> "task", indent |-> a - 1,
              text |-> SpacedText(line, b + 3), checked |-> FALSE]
        ELSE NoItem

\* line.match(/^(\s*)([-*+])\s+\[([ x])\]\s+(.+)$/)
taskMatch(line) ==
    LET a == SkipSpace(line, 1)
        b == SkipSpace(line, a + 1)
    IN  IF /\ a <= Len(line)
           /\ line[a] \in ListMarkers
           /\ b > a + 1
           /\ b + 2 <= Len(line)
           /\ line[b] = "["
           /\ line[b + 1] \in {" ", "x"}
           /\ line[b + 2] = "]"
           /\ Len(SpacedText(line, b + 3)) > 0
        THEN [type |-> "task", indent |-> a - 1,
              text |-> SpacedText(line, b + 3), checked |-> line[b + 1] = "x"]
        ELSE NoItem

\* line.match(/^(\s*)([-*+])\s+(.+)$/)
unorderedMatch(line) ==
    LET a == SkipSpace(line, 1)
    IN  IF /\ a <= Len(line)
           /\ line[a] \in ListMarkers
           /\ Len(SpacedText(line, a + 1)) > 0
        THEN [type |-> "unordered", indent |-> a - 1,
              text |-> SpacedText(line, a + 1), checked |-> FALSE]
        ELSE NoItem

\* line.match(/^(\s*)(\d+)\.\s+(.+)$/)
orderedMatch(line) ==
    LET a == SkipSpace(line, 1)
        d == SkipChars(line, a, Digits)
    IN  IF /\ d > a
           /\ d <= Len(line)
           /\ line[d] = "."
           /\ Len(SpacedText(line, d + 1)) > 0
        THEN [type |-> "ordered", indent |-> a - 1,
              text |-> SpacedText(line, d + 1), checked |-> FALSE]
        ELSE NoItem

\* lines[i].match(/^\s*>\s/)
IsQuoteLine(line) ==
    LET a == SkipSpace(line, 1)
    IN  a + 1 <= Len(line) /\ line[a] = ">" /\ IsSpace(line[a + 1])

\* lines[i].replace(/^\s*>\s?/, '') on a line that holds the marker
StripQuote(line) ==
    LET a == SkipSpace(line, 1)
    IN  IF a + 1 <= Len(line) /\ IsSpace(line[a + 1])
        THEN From(line, a + 2) ELSE From(line, a + 1)

\* line.match(/^\s*[-*_]{3,}\s*$/)
IsRule(line) ==
    LET a == SkipSpace(line, 1)
        b == SkipChars(line, a, {"-", "*", "_"})
    IN  b - a >= 3 /\ IsBlank(From(line, b))

(***************************************************************************)
(* The block processors.  Each gives the record {html, nextIndex} of the   *)
(* code, and kind names the processor that made it; Null is the code's     *)
(* null.                                                                   *)
(***************************************************************************)
Null == [kind |-> "null", html |-> <<>>, nextIndex |-> 0]

\* the indices of the lines of ls
Indices(ls) == 0..(Len(ls) - 1)

\* where a loop  while (i < n && P(lines[i])) i++  started at k ends, Stops
\* being the indices j at which P(lines[j]) is false: the first of them
\* from k on, or n
RunEnd(k, n, Stops) ==
    FirstOr({j \in k..(n - 1) : j \in Stops}, IF k > n THEN k ELSE n)

\* lines.slice(a, b)
Slice(ls, a, b) == SubSeq(ls, a + 1, b)

\* lines 71-77 of processBlockElement
processHeader(ls, startIndex) ==
    LET m == headerMatch(ls[startIndex + 1])
        level == <<"h", Digit(m.level)>>
    IN  [kind |-> "header",
         html |-> Open(level) \o processInlineElements(m.text) \o Close(level),
         nextIndex |-> startIndex + 1]

\* ' class="language-X"' or ''
langClass(language) ==
    IF Len(language) > 0
    THEN <<" ", "c", "l", "a", "s", "s", "=", "\"", "l", "a", "n", "g", "u", "a", "g", "e", "-">> \o language \o <<"\"">>
    ELSE <<>>

processFencedCodeBlock(ls, startIndex) ==
    LET e == RunEnd(startIndex + 1, Len(ls), {j \in Indices(ls) : IsFenceClose(ls[j + 1])})
    IN  [kind |-> "fence",
         html |-> <<"<", "p", "r", "e", ">", "<", "c", "o", "d", "e">> \o langClass(langMatch(ls[startIndex + 1])) \o <<">">>
                  \o escapeHTML(Join(Slice(ls, startIndex + 1, e), NL))
                  \o Close(Tag.code) \o Close(Tag.pre),
         nextIndex |-> e + 1]

\* headerRow.forEach / row.forEach: one <tag>cell</tag>\n for each cell
RECURSIVE CellsHTML(_, _)
CellsHTML(cells, tag) ==
    IF Len(cells) = 0 THEN <<>>
    ELSE Open(tag) \o processInlineElements(cells[1]) \o Close(tag) \o NL
         \o CellsHTML(Tail(cells), tag)

\* <tr>\n cells </tr>\n of one row, the cells in elements named tag
RowHTML(line, tag) ==
    Open(Tag.tr) \o NL \o CellsHTML(parseTableRow(line), tag) \o Close(Tag.tr) \o NL

\* dataRows.forEach
RECURSIVE RowsHTML(_)
RowsHTML(rows) ==
    IF Len(rows) = 0 THEN <<>>
    ELSE RowHTML(rows[1], Tag.td) \o RowsHTML(Tail(rows))

\* lines 147-165: tableLines[0] is the header row, tableLines[1] the
\* separator, the rest are the data rows
TableHTML(tableLines) ==
    Open(Tag.table) \o NL \o Open(Tag.thead) \o NL
    \o RowHTML(tableLines[1], Tag.th)
    \o Close(Tag.thead) \o NL \o Open(Tag.tbody) \o NL
    \o RowsHTML(SubSeq(tableLines, 3, Len(tableLines)))
    \o Close(Tag.tbody) \o NL \o Close(Tag.table)

\* the index where the collecting loop of processTable ends
TableEnd(ls, startIndex) == RunEnd(startIndex, Len(ls), {j \in Indices(ls) : ~isTableRow(ls[j + 1])})

processTable(ls, startIndex) ==
    LET e == TableEnd(ls, startIndex)
    IN  IF e - startIndex < 2 THEN Null
        ELSE [kind |-> "table", html |-> TableHTML(Slice(ls, startIndex, e)),
              nextIndex |-> e]

\* the item processList pushes for a line: the task pattern is tried
\* first, then the unordered, then the ordered one; type "none" is the
\* break of the loop.  text is the group the item's content is made of.
listItem(line) ==
    IF taskMatch(line).type # "none" THEN taskMatch(line)
    ELSE IF unorderedMatch(line).type # "none" THEN unorderedMatch(line)
    ELSE orderedMatch(line)

IsListItem(line) == listItem(line).type # "none"

\* the <li> of a task item around its content
TaskItemHTML(checked, content) ==
    <<"<", "l", "i", " ", "c", "l", "a", "s", "s", "=", "\"", "t", "a", "s", "k", "-", "l", "i", "s", "t", "-", "i", "t", "e", "m", "\"", ">", "<", "i", "n", "p", "u", "t", " ", "t", "y", "p", "e", "=", "\"", "c", "h", "e", "c", "k", "b", "o", "x", "\"">>
    \o (IF checked THEN <<" ", "c", "h", "e", "c", "k", "e", "d">> ELSE <<>>)
    \o <<" ", "d", "i", "s", "a", "b", "l", "e", "d", ">", " ">> \o content \o Close(Tag.li) \o NL

\* an item that opens a list of its own when its line is indented
nestedItemHTML(item) ==
    LET content == processInlineElements(item.text)
    IN  IF item.indent > 0
        THEN Open(Tag.ul) \o NL \o Open(Tag.li) \o content \o Close(Tag.li) \o NL
             \o Close(Tag.ul) \o NL
        ELSE Open(Tag.li) \o content \o Close(Tag.li) \o NL

\* listItems.forEach(item => ...), the content of the item being
\* processInlineElements of its text
itemHTML(item) ==
    LET content == processInlineElements(item.text)
    IN  IF item.type = "task" THEN TaskItemHTML(item.checked, content)
        ELSE Open(Tag.li) \o content \o Close(Tag.li) \o NL

RECURSIVE ItemsHTML(_)
ItemsHTML(ls) ==
    IF Len(ls) = 0 THEN <<>>
    ELSE itemHTML(listItem(ls[1])) \o ItemsHTML(Tail(ls))

\* a list type set by the last item instead of the first
lastListType(items) ==
    IF Len(items) = 0 THEN <<"n", "u", "l", "l">>
    ELSE IF listItem(items[Len(items)]).type = "ordered" THEN Tag.ol
    ELSE Tag.ul

\* the value of listType behind the loop: set by the first item, null
\* (written "null" by the template string) when no line matched
listTypeOf(items) ==
    IF Len(items) = 0 THEN <<"n", "u", "l", "l">>
    ELSE IF listItem(items[1]).type = "ordered" THEN Tag.ol
    ELSE Tag.ul

processList(ls, startIndex) ==
    LET e == RunEnd(startIndex, Len(ls), {j \in Indices(ls) : ~IsListItem(ls[j + 1])})
        items == Slice(ls, startIndex, e)
    IN  [kind |-> "list",
         html |-> Open(listTypeOf(items)) \o NL \o ItemsHTML(items)
                  \o Close(listTypeOf(items)),
         nextIndex |-> e]

\* quoteLines of the lines quoted
StripAll(quoted) == [k \in 1..Len(quoted) |-> StripQuote(quoted[k])]

processBlockquote(ls, startIndex) ==
    LET e == RunEnd(startIndex, Len(ls), {j \in Indices(ls) : ~IsQuoteLine(ls[j + 1])})
    IN  [kind |-> "blockquote",
         html |-> Open(Tag.blockquote)
                  \o processInlineElements(Join(StripAll(Slice(ls, startIndex, e)), NL))
                  \o Close(Tag.blockquote),
         nextIndex |-> e]

\* lines 101-106 of processBlockElement
processRule(ls, startIndex) ==
    [kind |-> "hr", html |-> Open(Tag.hr), nextIndex |-> startIndex + 1]

\* a table gate that does not look at the next line
IsRowStart(ls, startIndex) == isTableRow(ls[startIndex + 1])

\* the table gate of processBlockElement
IsTableStart(ls, startIndex) ==
    /\ isTableRow(ls[startIndex + 1])
    /\ startIndex + 1 < Len(ls)
    /\ isTableSeparator(ls[startIndex + 2])

\* the branch processBlockElement takes at startIndex, by the order of
\* its tests: header, fence, table, list, blockquote, rule
branchOf(ls, startIndex) ==
    IF headerMatch(ls[startIndex + 1]).level > 0 THEN "header"
    ELSE IF IsFenceOpen(ls[startIndex + 1]) THEN "fence"
    ELSE IF IsTableStart(ls, startIndex) THEN "table"
    ELSE IF IsListStart(ls[startIndex + 1]) THEN "list"
    ELSE IF IsQuoteLine(ls[startIndex + 1]) THEN "blockquote"
    ELSE IF IsRule(ls[startIndex + 1]) THEN "hr"
    ELSE "null"

\* what the branch returns
blockOf(branch, ls, startIndex) ==
    CASE branch = "header" -> processHeader(ls, startIndex)
      [] branch = "fence" -> processFencedCodeBlock(ls, startIndex)
      [] branch = "table" -> processTable(ls, startIndex)
      [] branch = "list" -> processList(ls, startIndex)
      [] branch = "blockquote" -> processBlockquote(ls, startIndex)
      [] branch = "hr" -> processRule(ls, startIndex)
      [] OTHER -> Null

processBlockElement(ls, startIndex) ==
    blockOf(branchOf(ls, startIndex), ls, startIndex)

\* whether processBlockElement(lines, startIndex) is an object rather
\* than null: every branch but the table's returns one, and the table's
\* returns null when it collects fewer than two lines
IsBlock(ls, startIndex) ==
    /\ branchOf(ls, startIndex) # "null"
    /\ branchOf(ls, startIndex) = "table" => TableEnd(ls, startIndex) - startIndex >= 2

\* a paragraph loop that stops at blank lines alone
blankParagraphEnd(ls, startIndex) ==
    RunEnd(startIndex, Len(ls), {j \in Indices(ls) : IsBlank(ls[j + 1])})

\* the first index j >= startIndex where the loop of processParagraph
\* stops: the end of the lines, a blank line or a line at which
\* processBlockElement gives a block
ParagraphEnd(ls, startIndex) ==
    RunEnd(startIndex, Len(ls),
           {j \in Indices(ls) : IsBlank(ls[j + 1]) \/ IsBlock(ls, j)})

\* lines 278-285
ParagraphHTML(paragraphLines) ==
    Open(Tag.p)
    \o processInlineElements(escapeHTMLInText(Join(paragraphLines, <<" ">>)))
    \o Close(Tag.p)

\* a paragraph that also takes the line its loop stopped at
paragraphPastStop(ls, startIndex) ==
    LET e == ParagraphEnd(ls, startIndex)
    IN  IF e = startIndex
        THEN [kind |-> "empty", html |-> <<>>, nextIndex |-> e + 1]
        ELSE [kind |-> "paragraph", html |-> ParagraphHTML(Slice(ls, startIndex, e)),
              nextIndex |-> e + 1]

processParagraph(ls, startIndex) ==
    LET e == ParagraphEnd(ls, startIndex)
    IN  IF e = startIndex
        THEN [kind |-> "empty", html |-> <<>>, nextIndex |-> e + 1]
        ELSE [kind |-> "paragraph", html |-> ParagraphHTML(Slice(ls, startIndex, e)),
              nextIndex |-> e]

(***************************************************************************)
(* The sanitizer boundary.                                                 *)
(***************************************************************************)
\* the default options of the constructor
DefaultAllowedTags ==
    <<<<"p">>,
      <<"b", "r">>,
      <<"s", "t", "r", "o", "n", "g">>,
      <<"e", "m">>,
      <<"c", "o", "d", "e">>,
      <<"p", "r", "e">>,
      <<"h", "1">>,
      <<"h", "2">>,
      <<"h", "3">>,
      <<"h", "4">>,
      <<"h", "5">>,
      <<"h", "6">>,
      <<"u", "l">>,
      <<"o", "l">>,
      <<"l", "i">>,
      <<"b", "l", "o", "c", "k", "q", "u", "o", "t", "e">>,
      <<"a">>,
      <<"i", "m", "g">>,
      <<"t", "a", "b", "l", "e">>,
      <<"t", "h", "e", "a", "d">>,
      <<"t", "b", "o", "d", "y">>,
      <<"t", "r">>,
      <<"t", "h">>,
      <<"t", "d">>,
      <<"d", "e", "t", "a", "i", "l", "s">>,
      <<"s", "u", "m", "m", "a", "r", "y">>,
      <<"k", "b", "d">>,
      <<"m", "a", "r", "k">>,
      <<"d", "e", "l">>,
      <<"i", "n", "s">>>>

DefaultOptions == [sanitizeHTML |-> TRUE, allowedTags |-> DefaultAllowedTags]

\* the objects the constructor is given: given names the keys the object
\* has, and the keys it has not are undefined
ConstructorOptions ==
    {[given |-> {}, sanitizeHTML |-> TRUE, allowedTags |-> <<>>],
     [given |-> {"sanitizeHTML"}, sanitizeHTML |-> FALSE, allowedTags |-> <<>>],
     [given |-> {"allowedTags"}, sanitizeHTML |-> TRUE, allowedTags |-> <<<<"p">>>>]}

\* this.options = {sanitizeHTML: true, allowedTags: [...], ...options}: a
\* key of the argument overrides the default
Construct(opts) ==
    [sanitizeHTML |-> IF "sanitizeHTML" \in opts.given
                      THEN opts.sanitizeHTML ELSE DefaultOptions.sanitizeHTML,
     allowedTags |-> IF "allowedTags" \in opts.given
                     THEN opts.allowedTags ELSE DefaultOptions.allowedTags]

\* /<script\b[^<]*(?:(?!<\/script>)<[^<]*)*<\/script>/gi at position p:
\* the opener, a word boundary, then everything up to the first </script>
MatchScript(s, p) ==
    LET e == FirstOr({q \in (p + 7)..Len(s) : AtCI(s, q, Close(Tag.script))}, 0)
    IN  IF /\ AtCI(s, p, <<"<">> \o Tag.script)
           /\ (p + 7 > Len(s) \/ ~IsWord(s[p + 7]))
           /\ e # 0
        THEN e + 9 ELSE 0

\* html.replace(/.../gi, '') from position p on
RECURSIVE StripScripts(_, _)
StripScripts(s, p) ==
    LET q == FirstOr({r \in p..Len(s) : MatchScript(s, r) # 0}, 0)
    IN  IF q = 0 THEN From(s, p)
        ELSE SubSeq(s, p, q - 1) \o StripScripts(s, MatchScript(s, q))

\* the fallback of sanitizeHTML
FallbackSanitize(html) == StripScripts(html, 1)

\* DOMPurify.sanitize(html, {ALLOWED_TAGS: tags}), the external allow-list
\* sanitizer: a tag whose name is not in the list is removed and its text
\* content kept, a < that opens no tag is written &lt;.  lt is the next <,
\* the tag name stands at n..ne-1 and gt is the > that closes the tag.
RECURSIVE PurifyFrom(_, _, _)
PurifyFrom(s, p, tags) ==
    LET lt == FirstIndexOf(s, p, "<")
        n == IF At(s, lt + 1, <<"/">>) THEN lt + 2 ELSE lt + 1
        ne == SkipChars(s, n, WordChars)
        name == [k \in 1..(ne - n) |-> Lower(s[n + k - 1])]
        gt == FirstIndexOf(s, ne, ">")
    IN  IF lt > Len(s) THEN From(s, p)
        ELSE IF ne > n /\ gt <= Len(s)
        THEN SubSeq(s, p, lt - 1)
             \o (IF \E k \in 1..Len(tags) : tags[k] = name
                 THEN SubSeq(s, lt, gt) ELSE <<>>)
             \o PurifyFrom(s, gt + 1, tags)
        ELSE SubSeq(s, p, lt - 1) \o EscapeChar("<") \o PurifyFrom(s, lt + 1, tags)

DOMPurifySanitize(html, tags) == PurifyFrom(html, 1, tags)

\* a sanitizer call that passes the default tag list
sanitizeWithDefaultTags(html, opts, purify) ==
    IF purify THEN DOMPurifySanitize(html, DefaultAllowedTags)
    ELSE FallbackSanitize(html)

\* sanitizeHTML(html), purify telling whether the global DOMPurify is
\* defined when the method runs
sanitizeHTML(html, opts, purify) ==
    IF purify THEN DOMPurifySanitize(html, opts.allowedTags)
    ELSE FallbackSanitize(html)

(***************************************************************************)
(* The inputs of parse.                                                    *)
(***************************************************************************)
\* the lines documents are made of: every block pattern, its near misses
\* and the characters the escaping is about
Pool ==
    {
      <<>>,
      <<" ">>,
      <<"#", " ", "a">>,
      <<"#", "#", "#", "#", "#", "#", " ", "b">>,
      <<"#", "#", "#", "#", "#", "#", "#", " ", "a">>,
      <<"#", "#", "#", "#", "#", "#", "#", "|">>,
      <<Backtick, Backtick, Backtick>>,
      <<Backtick, Backtick, Backtick, "j", "s">>,
      <<"<", "x", ">", "<", "y">>,
      <<"a", "|", "b">>,
      <<"|", "-", "|">>,
      <<"-", "-", "-">>,
      <<"-", " ", "a">>,
      <<"1", ".", " ", "b">>,
      <<"-", " ", "[", "x", "]", " ", "c">>,
      <<"-", " ", "[", " ", "]", " ", "d">>,
      <<"1", ".", " ", "[", "x", "]", " ", "e">>,
      <<"-", " ">>,
      <<">", " ", "q">>
    }

\* the lines the inline stages are about: emphasis, images in every
\* inline context, links whose parts hold emphasis characters
SpanPool ==
    {
      <<"*", "*", "a", "*", "*">>,
      <<"_", "_", "a", "_", "_">>,
      <<"*", "a", "*">>,
      <<"_", "a", "_">>,
      <<"~", "~", "a", "~", "~">>,
      <<"*", "*", "a", "_", "b", "_", "c", "*", "*">>,
      <<"~", "~", "a", "*", "b", "*", "c", "~", "~">>,
      <<"!", "[", "a", "]", "(", "u", ")">>,
      <<"!", "[", "]", "(", "u", ")">>,
      <<"#", " ", "!", "[", "a", "]", "(", "u", ")">>,
      <<"-", " ", "!", "[", "a", "]", "(", "u", ")">>,
      <<">", " ", "!", "[", "a", "]", "(", "u", ")">>,
      <<"|", "!", "[", "a", "]", "(", "u", ")", "|">>,
      <<"|", "-", "|">>,
      <<"[", "t", "]", "(", "u", ")">>,
      <<"[", "t", "]", "(", "a", "_", "b", "_", "c", ")">>,
      <<"[", "t", "]", "(", "a", "*", "b", "*", "c", ")">>,
      <<"[", "t", "]", "(", "a", "~", "~", "b", "~", "~", "c", ")">>,
      <<"[", "a", "_", "b", "_", "c", "]", "(", "u", ")">>
    }

\* the lines at the edges of the blockquote, rule and table patterns, and
\* the tags the sanitizer is about
EdgePool ==
    {
      <<">", "q">>,
      <<">">>,
      <<">", " ", "q">>,
      <<">", " ", " ", "q">>,
      <<" ", ">", " ", "q">>,
      <<"*", "*", "*">>,
      <<"_", "_", "_">>,
      <<"-", "*", "_">>,
      <<" ", "-", "-", "-", " ">>,
      <<"-", "-">>,
      <<"_", " ", "_", " ", "_">>,
      <<"-", " ", "a", " ", "|", " ", "b">>,
      <<">", " ", "a", " ", "|", " ", "b">>,
      <<"-", "-", "-">>,
      <<" ">>,
      <<"a">>,
      <<"#", " ", "<", "s", "c", "r", "i", "p", "t", ">", "x", "<", "/", "s", "c", "r", "i", "p", "t", ">">>,
      <<"#", " ", "<", "x", ">", "y", "<", "/", "x", ">">>
    }

\* the lines that put the cells of a row, the indentation of a list, the
\* protected spans, the raw tags and the attribute values to the test
HazardPool ==
    {
      <<"|", "a", "|", "|", "b", "|">>,
      <<"|", "-", "|">>,
      <<"-", " ", "a">>,
      <<" ", " ", "-", " ", "a">>,
      <<"[", Backtick, "a", Backtick, "]", "(", "u", ")">>,
      <<Backtick, "*", "*", "a", "*", "*", Backtick>>,
      <<"<", "k", "b", "d", ">", "k", "<", "/", "k", "b", "d", ">">>,
      <<"#", " ", "<", "k", "b", "d", ">", "k", "<", "/", "k", "b", "d", ">">>,
      <<"#", " ", "<", "k", "b", "d", ">", "k">>,
      <<"#", " ", "<", "s", "c", "r", "<", "s", "c", "r", "i", "p", "t", ">", "<", "/", "s", "c", "r", "i", "p", "t", ">", "i", "p", "t", ">", "<", "/", "s", "c", "r", "i", "p", "t", ">">>,
      <<"[", "t", "]", "(", "y", "\"", " ", "k", "=", "\"", "z", ")">>
    }

\* the documents of n lines
Docs(n) == [1..n -> Pool]

StringValue(str) == [type |-> "string", truthy |-> Len(str) > 0, str |-> str]

\* the values that are no string: null, undefined, 0, 1, an object
NonStrings ==
    {[type |-> "null", truthy |-> FALSE, str |-> <<>>],
     [type |-> "undefined", truthy |-> FALSE, str |-> <<>>],
     [type |-> "number", truthy |-> FALSE, str |-> <<>>],
     [type |-> "number", truthy |-> TRUE, str |-> <<>>],
     [type |-> "object", truthy |-> TRUE, str |-> <<>>]}

\* the text of document d, its lines ended by \n
TextOf(d) == StringValue(Join(d, NL))

\* the texts of the documents of at most n lines over the lines of P
TextsOver(P, n) == UNION {{TextOf(d) : d \in [1..k -> P]} : k \in 1..n}

\* the three ways a line break is written
Breaks == {<<"\n">>, <<"\r">>, <<"\r", "\n">>}

\* the lines of the documents whose line breaks vary
BreakPool == {<<"a">>, <<>>, <<"#", " ", "b">>}

\* the lines of d, the gap behind line k written br[k]
RECURSIVE JoinBy(_, _)
JoinBy(d, br) ==
    IF Len(d) = 0 THEN <<>>
    ELSE IF Len(d) = 1 THEN d[1]
    ELSE d[1] \o br[1] \o JoinBy(Tail(d), Tail(br))

\* the documents over BreakPool, every line break written each way
BrokenTexts ==
    UNION {{StringValue(JoinBy(d, br)) : d \in [1..n -> BreakPool], br \in [1..(n - 1) -> Breaks]} :
           n \in 1..MaxLines}

\* the values parse is called with
Inputs ==
    NonStrings
    \cup UNION {{TextOf(d) : d \in Docs(n)} : n \in 0..MaxLines}
    \cup TextsOver(SpanPool, MaxEdgeLines)
    \cup TextsOver(EdgePool, MaxEdgeLines)
    \cup TextsOver(HazardPool, MaxEdgeLines)
    \cup BrokenTexts

\* markdown.replace(/\r\n/g, '\n') from position p on
RECURSIVE ReplaceCRLF(_, _)
ReplaceCRLF(s, p) ==
    LET q == FirstOr({r \in p..Len(s) : At(s, r, <<"\r", "\n">>)}, 0)
    IN  IF q = 0 THEN From(s, p)
        ELSE SubSeq(s, p, q - 1) \o NL \o ReplaceCRLF(s, q + 2)

\* t.replace(/\r/g, '\n')
ReplaceCR(t) == [k \in 1..Len(t) |-> IF t[k] = "\r" THEN "\n" ELSE t[k]]

\* the two replacements in the other order
NormalizeCRFirst(s) == ReplaceCRLF(ReplaceCR(s), 1)

Normalize(s) == ReplaceCR(ReplaceCRLF(s, 1))

(***************************************************************************)
(* The state machine of parse.                                             *)
(***************************************************************************)
NoStep == [kind |-> "none", start |-> 0, html |-> <<>>, nextIndex |-> 0]

Step(r, start) ==
    [kind |-> r.kind, start |-> start, html |-> r.html, nextIndex |-> r.nextIndex]

Init ==
    /\ options = DefaultOptions
    /\ markdown = StringValue(<<>>)
    /\ pc = "idle"
    /\ lines = <<>>
    /\ i = 0
    /\ result = <<>>
    /\ last = NoStep
    /\ called = {}
    /\ ret = <<>>

\* a guard that tests the value for falsiness alone
IsFalsy(v) == ~v.truthy

\* the test of line 17
IsGuarded(v) == ~v.truthy \/ v.type # "string"

\* parse(v), lines 17-19: the guard returns ''
ParseGuard ==
    /\ pc = "idle"
    /\ \E v \in Inputs :
        /\ IsGuarded(v)
        /\ markdown' = v
        /\ ret' = <<>>
        /\ pc' = "done"
    /\ UNCHANGED <<options, lines, i, result, last, called>>

\* parse(v), lines 21-28: normalise, split, enter processLines
ParseStart ==
    /\ pc = "idle"
    /\ \E v \in Inputs :
        /\ ~IsGuarded(v)
        /\ markdown' = v
        /\ lines' = Split(Normalize(v.str), "\n")
    /\ i' = 0
    /\ result' = <<>>
    /\ called' = called \cup {"processLines"}
    /\ pc' = "loop"
    /\ UNCHANGED <<options, last, ret>>

\* the loop of processLines is at a line
AtLine == pc = "loop" /\ i < Len(lines)

\* the test of line 43
IsLeadingBlank == IsBlank(lines[i + 1]) /\ Len(result) = 0

\* processLines, lines 43-46: an empty line before the first block
SkipLeadingBlank ==
    /\ AtLine
    /\ IsLeadingBlank
    /\ i' = i + 1
    /\ last' = [kind |-> "skip", start |-> i, html |-> <<>>, nextIndex |-> i + 1]
    /\ UNCHANGED <<options, markdown, pc, lines, result, called, ret>>

\* result.push(r.html); i = r.nextIndex
Push(r) ==
    /\ result' = Append(result, r.html)
    /\ i' = r.nextIndex
    /\ last' = Step(r, i)
    /\ UNCHANGED <<options, markdown, pc, lines, called, ret>>

\* processLines, lines 49-54: a block element
EmitBlock ==
    /\ AtLine
    /\ ~IsLeadingBlank
    /\ Len(result) < MaxResult
    /\ IsBlock(lines, i)
    /\ Push(processBlockElement(lines, i))

\* processLines, lines 57-59: a paragraph
EmitParagraph ==
    /\ AtLine
    /\ ~IsLeadingBlank
    /\ Len(result) < MaxResult
    /\ ~IsBlock(lines, i)
    /\ Push(processParagraph(lines, i))

\* processLines, line 62, and parse, line 31: join, sanitize, return
Finish(purify) ==
    /\ pc = "loop"
    /\ i >= Len(lines)
    /\ ret' = IF options.sanitizeHTML
              THEN sanitizeHTML(Join(result, NL), options, purify)
              ELSE Join(result, NL)
    /\ called' = called \cup
          (IF ~options.sanitizeHTML THEN {}
           ELSE IF purify THEN {"sanitizeHTML", "DOMPurify.sanitize"}
           ELSE {"sanitizeHTML"})
    /\ pc' = "done"
    /\ UNCHANGED <<options, markdown, lines, i, result, last>>

Next ==
    \/ ParseGuard
    \/ ParseStart
    \/ SkipLeadingBlank
    \/ EmitBlock
    \/ EmitParagraph
    \/ \E purify \in BOOLEAN : Finish(purify)

Spec == Init /\ [][Next]_vars

(***************************************************************************)
(* A parser built with any of the constructor's options and called again   *)
(* and again.                                                              *)
(***************************************************************************)
NoCall == [kind |-> "return", start |-> 0, html |-> <<>>, nextIndex |-> 0]

\* new MarkdownParser(opts)
ConfiguredInit ==
    /\ options \in {Construct(opts) : opts \in ConstructorOptions}
    /\ markdown = StringValue(<<>>)
    /\ pc = "idle"
    /\ lines = <<>>
    /\ i = 0
    /\ result = <<>>
    /\ last = NoStep
    /\ called = {}
    /\ ret = <<>>

\* a return that also switches the sanitizer off
ReturnSwitchingOff ==
    /\ pc = "done"
    /\ pc' = "idle"
    /\ options' = [options EXCEPT !.sanitizeHTML = FALSE]
    /\ markdown' = StringValue(<<>>)
    /\ lines' = <<>>
    /\ i' = 0
    /\ result' = <<>>
    /\ called' = {}
    /\ ret' = <<>>
    /\ last' = NoCall

\* parse has returned, lines 18 and 31: the caller has the value, the
\* locals of the call are gone and the parser, its options as they were,
\* is ready for the next call
Return ==
    /\ pc = "done"
    /\ pc' = "idle"
    /\ markdown' = StringValue(<<>>)
    /\ lines' = <<>>
    /\ i' = 0
    /\ result' = <<>>
    /\ called' = {}
    /\ ret' = <<>>
    /\ last' = NoCall
    /\ UNCHANGED options

SessionNext ==
    \/ Next
    \/ Return

SessionSpec == ConfiguredInit /\ [][SessionNext]_vars

(***************************************************************************)
(* Properties of the dispatcher and of the block processors.  last is the  *)
(* value the latest step of the loop got: it started at line index         *)
(* last.start and the lines it consumed are those up to last.nextIndex.    *)
(***************************************************************************)
\* the line the latest step started at
StartLine == lines[last.start + 1]

\* the lines the latest step consumed
Consumed == SubSeq(lines, last.start + 1, last.nextIndex)

\* the HTML of the latest step, line by line
HtmlLines == Split(last.html, "\n")

StartsWith(s, lit) == At(s, 1, lit)

EndsWith(s, lit) == At(s, Len(s) - Len(lit) + 1, lit)

\* text escaped character by character: & < > become entities
RECURSIVE Escaped(_)
Escaped(text) ==
    IF Len(text) = 0 THEN <<>>
    ELSE (CASE text[1] = "&" -> <<"&", "a", "m", "p", ";">>
            [] text[1] = "<" -> <<"&", "l", "t", ";">>
            [] text[1] = ">" -> <<"&", "g", "t", ";">>
            [] OTHER -> <<text[1]>>) \o Escaped(Tail(text))

\* the latest step is one of the arms that push to result
Emitted == last.kind \in {"header", "fence", "table", "list", "blockquote", "hr", "paragraph", "empty"}

\* C1: every step of the dispatcher loop strictly increases the line
\* index: the processor of the step returned nextIndex > its start index,
\* so it consumed at least one line
C1_EveryStepAdvances == last.kind # "none" => last.nextIndex > last.start

\* C2: parse called with the empty string or a value that is no string
\* returns the empty string, and neither the dispatcher nor the sanitizer
\* has run
C2_GuardReturnsEmpty ==
    (pc = "done" /\ (markdown.type # "string" \/ Len(markdown.str) = 0))
        => (ret = <<>> /\ called = {})

\* a call with a truthy value that is no string has returned
C2_Witness ==
    pc = "done" /\ markdown.type # "string" /\ markdown.truthy /\ ret = <<>>

\* C3: the output of a paragraph holds no literal tag opener that came
\* from the user's plain text: the one opener the input lines hold outside
\* code, link and image spans is the unclosed <y, and no paragraph shows it
C3_ParagraphHasNoRawOpener ==
    last.kind = "paragraph" => ~Includes(last.html, <<"<", "y">>)

\* the index of the line that closes the fence the latest step opened:
\* the first line behind the opener that is three backticks and optional
\* whitespace, the line count when there is none
Closer ==
    FirstOr({k \in (last.start + 1)..(Len(lines) - 1) :
                /\ At(lines[k + 1], 1, BackTicks)
                /\ \A q \in 4..Len(lines[k + 1]) : lines[k + 1][q] \in {" ", "\t"}},
            Len(lines))

\* the language tag of the opener: the word characters that follow the
\* three backticks at once
LanguageTag == SubSeq(StartLine, 4, SkipChars(StartLine, 4, WordChars) - 1)

\* C4: the lines between an opening fence and its closing fence are
\* emitted verbatim, escaped and joined with newlines, in one
\* <pre><code> element that is the whole block and holds no other <; the
\* step consumes them all, so none of them is dispatched; the class is
\* language-X when the opener carries the tag X and is left out otherwise
C4_FenceIsVerbatim ==
    last.kind = "fence" =>
        /\ last.nextIndex = Closer + 1
        /\ last.html =
              <<"<", "p", "r", "e", ">", "<", "c", "o", "d", "e">>
              \o (IF Len(LanguageTag) > 0
                  THEN <<" ", "c", "l", "a", "s", "s", "=", "\"", "l", "a", "n", "g", "u", "a", "g", "e", "-">> \o LanguageTag \o <<"\"">>
                  ELSE <<>>)
              \o <<">">>
              \o Escaped(Join(SubSeq(lines, last.start + 2, Closer), NL))
              \o <<"<", "/", "c", "o", "d", "e", ">", "<", "/", "p", "r", "e", ">">>
        /\ \A q \in 11..(Len(last.html) - 13) : last.html[q] # "<"

\* a closed fence with a language tag whose content holds markup and <
C4_Witness ==
    /\ last.kind = "fence"
    /\ Closer < Len(lines)
    /\ Len(LanguageTag) > 0
    /\ \E k \in (last.start + 2)..Closer : Includes(lines[k], <<"<">>)
    /\ Includes(last.html, <<"&", "l", "t", ";">>)

\* the fence the latest step opened has no closing line
UnclosedFence == last.kind = "fence" /\ Closer = Len(lines) /\ last.start + 1 <= Len(lines)

\* C5: an opening fence with no closing fence line consumes every
\* remaining line into its block; the loop has ended with it, the next
\* step is the return of parse and no block is emitted after it
C5_UnclosedFenceEndsDocument ==
    [][UnclosedFence =>
        /\ last.nextIndex = Len(lines) + 1
        /\ i >= Len(lines)
        /\ result[Len(result)] = last.html
        /\ Includes(last.html, Escaped(Join(SubSeq(lines, last.start + 2, Len(lines)), NL)))
        /\ pc' = "done"
        /\ result' = result]_vars

\* parse has returned from a document whose last block is an unclosed
\* fence that took lines behind its opener
C5_Witness ==
    /\ UnclosedFence
    /\ pc = "done"
    /\ Len(lines) > last.start + 1

\* the number of # the line begins with
Hashes(line) == SkipChars(line, 1, {"#"}) - 1

\* the line is N # signs, one or more spaces, then text
IsHeaderLine(line) ==
    /\ Hashes(line) \in 1..6
    /\ Hashes(line) + 2 <= Len(line)
    /\ line[Hashes(line) + 1] \in {" ", "\t"}
    /\ SkipSpace(line, Hashes(line) + 1) <= Len(line)

\* the text of a header line: what follows the spaces
HeaderText(line) == From(line, SkipSpace(line, Hashes(line) + 1))

\* the first half of C6: a step that starts at a header line emits
\* <hN>text</hN>, N the number of #, and consumes that one line
HeaderIsEmitted ==
    (Emitted /\ IsHeaderLine(StartLine)) =>
        /\ last.kind = "header"
        /\ last.nextIndex = last.start + 1
        /\ last.html = <<"<", "h", Digit(Hashes(StartLine)), ">">>
                       \o processInlineElements(HeaderText(StartLine))
                       \o <<"<", "/", "h", Digit(Hashes(StartLine)), ">">>

\* C6 as stated: a header line is emitted as <hN>text</hN> and consumes
\* one line; a line of seven or more # is no header and is paragraph text
C6_SevenHashesIsParagraph ==
    /\ HeaderIsEmitted
    /\ (Emitted /\ Hashes(StartLine) >= 7) => last.kind = "paragraph"

\* C6, amended: a line of seven or more # is no header; it is paragraph
\* text unless it holds | and a table starts at it
C6_SevenHashesIsNoHeader ==
    /\ HeaderIsEmitted
    /\ (Emitted /\ Hashes(StartLine) >= 7) =>
          \/ last.kind = "paragraph" /\ StartsWith(last.html, <<"<", "p", ">", "#", "#", "#", "#", "#", "#", "#">>)
          \/ /\ last.kind = "table"
             /\ Includes(StartLine, <<"|">>)
             /\ StartsWith(last.html, <<"<", "t", "a", "b", "l", "e", ">">>)

\* a header of level 6 and a paragraph of seven # have been emitted
C6_Witness ==
    /\ Len(result) >= 2
    /\ result[1] = <<"<", "h", "6", ">", "b", "<", "/", "h", "6", ">">>
    /\ last.kind = "paragraph"
    /\ Hashes(StartLine) = 7

\* the line behind the start line is absent or no separator
NoSeparatorFollows ==
    \/ last.start + 2 > Len(lines)
    \/ ~isTableSeparator(lines[last.start + 2])

\* the start line matches no block pattern but the table's
OnlyTablePattern ==
    /\ headerMatch(StartLine).level = 0
    /\ ~IsFenceOpen(StartLine)
    /\ ~IsListStart(StartLine)
    /\ ~IsQuoteLine(StartLine)
    /\ ~IsRule(StartLine)

\* C7: a line holding | whose next line is absent or no separator never
\* starts a table, and is a paragraph when it matches no other block
\* pattern: a|b alone gives <p>a|b</p>
C7_NoTableWithoutSeparator ==
    (Emitted /\ Includes(StartLine, <<"|">>) /\ NoSeparatorFollows) =>
        /\ last.kind # "table"
        /\ ~Includes(last.html, <<"<", "t", "a", "b", "l", "e">>)
        /\ OnlyTablePattern =>
              /\ last.kind = "paragraph"
              /\ StartsWith(last.html, <<"<", "p", ">">>)
        /\ lines = <<<<"a", "|", "b">>>> => last.html = <<"<", "p", ">", "a", "|", "b", "<", "/", "p", ">">>

\* a row followed by a second row that is no separator became a paragraph
C7_Witness ==
    /\ last.kind = "paragraph"
    /\ last.start + 2 <= Len(lines)
    /\ StartLine = <<"a", "|", "b">>
    /\ lines[last.start + 2] = <<"a", "|", "b">>
    /\ last.html = <<"<", "p", ">", "a", "|", "b", " ", "a", "|", "b", "<", "/", "p", ">">>

\* C8: a non-empty line holding | whose next line matches the separator
\* pattern, and that is no header and no fence opener, starts a table
\* that consumes the row, the separator and the rows that follow
C8_SeparatorStartsTable ==
    ( /\ Emitted
      /\ Includes(StartLine, <<"|">>)
      /\ last.start + 2 <= Len(lines)
      /\ isTableSeparator(lines[last.start + 2])
      /\ headerMatch(StartLine).level = 0
      /\ ~IsFenceOpen(StartLine) )
        => (last.kind = "table" /\ last.nextIndex >= last.start + 2)

\* the text of a list line behind its marker and the spaces after it,
\* the marker being a bullet, or a bullet or a number
ItemText(line, numbered) ==
    IF unorderedMatch(line).type # "none" THEN unorderedMatch(line).text
    ELSE IF numbered THEN orderedMatch(line).text
    ELSE <<>>

\* the text is [ ] or [x], spaces, text
IsBracketText(t) ==
    /\ Len(t) >= 5
    /\ t[1] = "[" /\ t[2] \in {" ", "x"} /\ t[3] = "]"
    /\ t[4] \in {" ", "\t"}
    /\ SkipSpace(t, 4) <= Len(t)

\* the <li> of the k-th consumed line is a task item whose checkbox is
\* disabled and is checked iff the bracket held x
IsTaskLi(li, t) ==
    /\ StartsWith(li, <<"<", "l", "i", " ", "c", "l", "a", "s", "s", "=", "\"", "t", "a", "s", "k", "-", "l", "i", "s", "t", "-", "i", "t", "e", "m", "\"", ">", "<", "i", "n", "p", "u", "t", " ", "t", "y", "p", "e", "=", "\"", "c", "h", "e", "c", "k", "b", "o", "x", "\"">>
                      \o (IF t[2] = "x" THEN <<" ", "c", "h", "e", "c", "k", "e", "d">> ELSE <<>>)
                      \o <<" ", "d", "i", "s", "a", "b", "l", "e", "d", ">", " ">>)
    /\ EndsWith(li, <<"<", "/", "l", "i", ">">>)

\* the <li> is plain
IsPlainLi(li) ==
    /\ StartsWith(li, <<"<", "l", "i", ">">>)
    /\ EndsWith(li, <<"<", "/", "l", "i", ">">>)
    /\ ~Includes(li, <<"<", "i", "n", "p", "u", "t">>)

\* every consumed line of the list of the latest step renders as a task
\* item when it has a bracket behind its marker and as a plain item
\* otherwise, the marker families of task lines being those named
TaskItemsRender(numbered) ==
    (last.kind = "list" /\ Len(HtmlLines) = Len(Consumed) + 2) =>
        \A k \in 1..Len(Consumed) :
            IF IsBracketText(ItemText(Consumed[k], numbered))
            THEN IsTaskLi(HtmlLines[k + 1], ItemText(Consumed[k], numbered))
            ELSE IsPlainLi(HtmlLines[k + 1])

\* C9 as stated: every list line marker, spaces, [ ] or [x], spaces, text
\* is a task item, whatever its marker; the other list lines are plain
C9_EveryBracketLineIsTask == TaskItemsRender(TRUE)

\* C9, amended: the list lines whose marker is one of - * + and that have
\* the bracket are task items, with a disabled checkbox that is checked
\* iff the bracket held x; every other list line, a numbered line with a
\* bracket among them, is a plain <li> with no checkbox
C9_BulletBracketLineIsTask == TaskItemsRender(FALSE)

\* a list of a checked task, an unchecked task and a numbered line with a
\* bracket has been emitted
C9_Witness ==
    /\ last.kind = "list"
    /\ Consumed = <<<<"-", " ", "[", "x", "]", " ", "c">>, <<"-", " ", "[", " ", "]", " ", "d">>, <<"1", ".", " ", "[", "x", "]", " ", "e">>>>

\* the first consumed line has a number for marker
FirstIsNumbered == StartLine[SkipSpace(StartLine, 1)] \in Digits

\* C10: in a run of list lines the wrapping tag is fixed by the first
\* line, ul for a bullet or task line and ol for a numbered line; the
\* closing tag has the same name, and every line of the run is one <li>
\* of that one element
C10_ListTagIsFirstLines ==
    (last.kind = "list" /\ last.nextIndex > last.start) =>
        /\ Len(HtmlLines) = Len(Consumed) + 2
        /\ HtmlLines[1] = (IF FirstIsNumbered THEN <<"<", "o", "l", ">">> ELSE <<"<", "u", "l", ">">>)
        /\ HtmlLines[Len(HtmlLines)] = (IF FirstIsNumbered THEN <<"<", "/", "o", "l", ">">> ELSE <<"<", "/", "u", "l", ">">>)
        /\ \A k \in 1..Len(Consumed) :
              /\ StartsWith(HtmlLines[k + 1], <<"<", "l", "i">>)
              /\ EndsWith(HtmlLines[k + 1], <<"<", "/", "l", "i", ">">>)
              /\ ~Includes(HtmlLines[k + 1], <<"<", "u", "l">>)
              /\ ~Includes(HtmlLines[k + 1], <<"<", "o", "l">>)

\* a run that begins with a bullet line and goes on with a numbered line
C10_Witness ==
    /\ last.kind = "list"
    /\ Len(Consumed) >= 2
    /\ ~FirstIsNumbered
    /\ \E k \in 2..Len(Consumed) : Consumed[k][1] \in Digits
    /\ HtmlLines[1] = <<"<", "u", "l", ">">>


(***************************************************************************)
(* Properties of the inline stages, read off the paragraph, header, list,  *)
(* table and blockquote the latest step emitted.                           *)
(***************************************************************************)
\* the emphasis delimiters and the elements they name, the longer
\* delimiters first
Delims ==
    << [d |-> <<"*", "*">>, tag |-> <<"s", "t", "r", "o", "n", "g">>],
       [d |-> <<"_", "_">>, tag |-> <<"s", "t", "r", "o", "n", "g">>],
       [d |-> <<"~", "~">>, tag |-> <<"d", "e", "l">>],
       [d |-> <<"*">>, tag |-> <<"e", "m">>],
       [d |-> <<"_">>, tag |-> <<"e", "m">>] >>

\* the first delimiter that opens and closes the line around some text,
\* 0 when there is none
WrapOf(line) ==
    FirstOr({k \in 1..Len(Delims) :
                /\ Len(line) > 2 * Len(Delims[k].d)
                /\ StartsWith(line, Delims[k].d)
                /\ EndsWith(line, Delims[k].d)}, 0)

\* the text between the delimiters of a wrapped line
WrappedText(line) ==
    SubSeq(line, Len(Delims[WrapOf(line)].d) + 1,
           Len(line) - Len(Delims[WrapOf(line)].d))

\* the characters the text of a wrapped line must be free of: every
\* emphasis character when plain, the character of its own delimiter
\* otherwise
Barred(line, plain) ==
    IF plain THEN {"*", "_", "~"} ELSE {Delims[WrapOf(line)].d[1]}

\* a paragraph of one line that is text wrapped in an emphasis delimiter
\* is the text in the element of the delimiter
EmphasisRenders(plain) ==
    ( /\ last.kind = "paragraph"
      /\ Len(Consumed) = 1
      /\ WrapOf(StartLine) # 0
      /\ \A k \in 1..Len(WrappedText(StartLine)) :
            WrappedText(StartLine)[k] \notin Barred(StartLine, plain) )
        => last.html = <<"<", "p", ">">> \o Open(Delims[WrapOf(StartLine)].tag)
                       \o WrappedText(StartLine)
                       \o Close(Delims[WrapOf(StartLine)].tag) \o <<"<", "/", "p", ">">>

InlineKinds == {"paragraph", "header", "list", "table", "blockquote"}

\* the position of the first image token ![alt](url) of the line, 0 when
\* it has none: ! and [, the alt up to the next ], then ( and a non-empty
\* url up to the next )
ImageAt(line) ==
    FirstOr({p \in 1..Len(line) :
                /\ At(line, p, <<"!", "[">>)
                /\ \E q \in (p + 2)..Len(line), r \in (p + 5)..Len(line) :
                      /\ line[q] = "]"
                      /\ \A k \in (p + 2)..(q - 1) : line[k] # "]"
                      /\ At(line, q + 1, <<"(">>)
                      /\ r > q + 2
                      /\ line[r] = ")"
                      /\ \A k \in (q + 2)..(r - 1) : line[k] # ")"}, 0)

\* the alt and the url of that token
ImageAlt(line) ==
    SubSeq(line, ImageAt(line) + 2, FirstIndexOf(line, ImageAt(line) + 2, "]") - 1)

ImageUrl(line) ==
    SubSeq(line, FirstIndexOf(line, ImageAt(line) + 2, "]") + 2,
           FirstIndexOf(line, FirstIndexOf(line, ImageAt(line) + 2, "]") + 2, ")") - 1)

\* C12: in every inline context (paragraph, header, list item, table
\* cell, blockquote) a consumed line that holds an image token ![alt](url)
\* gives the element <img src="url" alt="alt">, and the block holds no !
\* followed by an <a> element: the link stage never sees the token, in a
\* paragraph too, where the token is protected and restored first
C12_ImageIsNeverALink ==
    last.kind \in InlineKinds =>
        \A k \in 1..Len(Consumed) :
            ImageAt(Consumed[k]) # 0 =>
                /\ Includes(last.html,
                            <<"<", "i", "m", "g", " ", "s", "r", "c", "=", "\"">> \o Escaped(ImageUrl(Consumed[k]))
                            \o <<"\"", " ", "a", "l", "t", "=", "\"">> \o Escaped(ImageAlt(Consumed[k])) \o <<"\"", ">">>)
                /\ ~Includes(last.html, <<"!", "<", "a">>)
                /\ ~Includes(last.html, <<"!", "[">>)

\* a paragraph and then a header that hold an image have been emitted
C12_Witness ==
    /\ last.kind = "header"
    /\ lines = <<<<"!", "[", "a", "]", "(", "u", ")">>, <<"#", " ", "!", "[", "a", "]", "(", "u", ")">>>>
    /\ result = <<<<"<", "p", ">", "<", "i", "m", "g", " ", "s", "r", "c", "=", "\"", "u", "\"", " ", "a", "l", "t", "=", "\"", "a", "\"", ">", "<", "/", "p", ">">>, <<"<", "h", "1", ">", "<", "i", "m", "g", " ", "s", "r", "c", "=", "\"", "u", "\"", " ", "a", "l", "t", "=", "\"", "a", "\"", ">", "<", "/", "h", "1", ">">>>>

\* the position of the first link token [text](url) of the line that is
\* not the tail of an image token, 0 when it has none: [, a non-empty
\* text up to the next ], then ( and a non-empty url up to the next )
LinkAt(line) ==
    FirstOr({p \in 1..Len(line) :
                /\ At(line, p, <<"[">>)
                /\ ~At(line, p - 1, <<"!">>)
                /\ \E q \in (p + 2)..Len(line), r \in (p + 5)..Len(line) :
                      /\ line[q] = "]"
                      /\ \A k \in (p + 1)..(q - 1) : line[k] # "]"
                      /\ At(line, q + 1, <<"(">>)
                      /\ r > q + 2
                      /\ line[r] = ")"
                      /\ \A k \in (q + 2)..(r - 1) : line[k] # ")"}, 0)

\* the url of that token
LinkUrl(line) ==
    SubSeq(line, FirstIndexOf(line, LinkAt(line) + 1, "]") + 2,
           FirstIndexOf(line, FirstIndexOf(line, LinkAt(line) + 1, "]") + 2, ")") - 1)

\* C13: for every link [text](url) of a consumed line the block holds the
\* element <a href="U">T</a>, U and T being the escaped url and text, and
\* the stages behind the link stage leave it as it is, also when the url
\* holds _ * or ~ : at the least the open tag <a href="U"> of the element
\* is in the block with the href the link stage wrote
C13_LinkHrefIsLeftAlone ==
    last.kind \in InlineKinds =>
        \A k \in 1..Len(Consumed) :
            LinkAt(Consumed[k]) # 0 =>
                Includes(last.html,
                         <<"<", "a", " ", "h", "r", "e", "f", "=", "\"">> \o Escaped(LinkUrl(Consumed[k])) \o <<"\"", ">">>)

(***************************************************************************)
(* Properties of the paragraph, the blockquote and the rule.               *)
(***************************************************************************)
\* the lines written one after the other with one space between them
RECURSIVE SpaceJoined(_)
SpaceJoined(ls) ==
    IF Len(ls) = 0 THEN <<>>
    ELSE IF Len(ls) = 1 THEN ls[1]
    ELSE ls[1] \o <<" ">> \o SpaceJoined(Tail(ls))

\* the line at index j is blank or the dispatcher gets a block at it
EndsRun(j) == IsBlank(lines[j + 1]) \/ IsBlock(lines, j)

\* C14: a paragraph is a maximal run of contiguous lines that are not
\* blank and start no block: none of its lines is blank or starts a
\* block, the line behind it, if any, is blank or starts a block, and it
\* is one <p> element whose content is the lines joined by one space; so
\* no <p> spans a blank line and text on both sides of a blank line is
\* in two <p> elements
C14_ParagraphIsMaximalRun ==
    last.kind = "paragraph" =>
        /\ last.nextIndex > last.start
        /\ \A j \in last.start..(last.nextIndex - 1) : ~EndsRun(j)
        /\ last.nextIndex < Len(lines) => EndsRun(last.nextIndex)
        /\ last.html = <<"<", "p", ">">>
              \o processInlineElements(escapeHTMLInText(SpaceJoined(Consumed)))
              \o <<"<", "/", "p", ">">>
        /\ ~Includes(Tail(last.html), <<"<", "p", ">">>)
        /\ (\A k \in 1..Len(Consumed) : \A q \in 1..Len(Consumed[k]) :
                Consumed[k][q] \in (WordChars \ {"_"}) \cup {"|", "#", " "})
              => last.html = <<"<", "p", ">">> \o SpaceJoined(Consumed) \o <<"<", "/", "p", ">">>

\* two runs of text with a blank line between them have been emitted as
\* two <p> elements
C14_Witness ==
    /\ last.kind = "paragraph"
    /\ lines = <<<<"a">>, <<>>, <<"a">>>>
    /\ result = <<<<"<", "p", ">", "a", "<", "/", "p", ">">>, <<>>, <<"<", "p", ">", "a", "<", "/", "p", ">">>>>

\* the line begins with the quote marker >
BeginsQuote(line) == StartsWith(line, <<">">>)

\* the index behind the run of marker lines the latest step started in
QuoteRunEnd ==
    FirstOr({j \in last.start..(Len(lines) - 1) : ~BeginsQuote(lines[j + 1])},
            Len(lines))

\* C15: a step that starts at a line beginning with > (whether a space, text
\* or nothing follows the marker) and holding no | emits one blockquote
\* that consumes exactly the contiguous lines beginning with >
C15_QuoteMarkerSpaceIsOptional ==
    (Emitted /\ BeginsQuote(StartLine) /\ ~Includes(StartLine, <<"|">>)) =>
        /\ last.kind = "blockquote"
        /\ last.nextIndex = QuoteRunEnd
        /\ StartsWith(last.html, <<"<", "b", "l", "o", "c", "k", "q", "u", "o", "t", "e", ">">>)
        /\ EndsWith(last.html, <<"<", "/", "b", "l", "o", "c", "k", "q", "u", "o", "t", "e", ">">>)

\* the line is three or more repetitions of one of - * _ and nothing else
\* but whitespace around them
IsUniformRule(line) ==
    /\ Len(Trim(line)) >= 3
    /\ Trim(line)[1] \in {"-", "*", "_"}
    /\ \A k \in 1..Len(Trim(line)) : Trim(line)[k] = Trim(line)[1]

\* C16: a step emits <hr> if and only if its line is three or more
\* repetitions of one single character among - * _ with optional
\* whitespace around them, and then it consumes that one line; a line
\* that mixes the rule characters is no horizontal rule
C16_RuleIsOneCharacter ==
    Emitted =>
        /\ (last.kind = "hr") <=> IsUniformRule(StartLine)
        /\ last.kind = "hr" =>
              (last.html = <<"<", "h", "r", ">">> /\ last.nextIndex = last.start + 1)

(***************************************************************************)
(* Properties of the value parse returns and of the parser between calls.  *)
(***************************************************************************)
\* the HTML processLines assembled
Assembled == Join(result, NL)

\* a call that got past the guard has returned
Returned == pc = "done" /\ ~IsGuarded(markdown)

\* the external sanitizer was called in this call; with sanitizeHTML on,
\* that is the case exactly when the sanitizer is available
Purified == "DOMPurify.sanitize" \in called

\* C17: the value parse returns is fixed by the configuration.  With
\* sanitizeHTML on and the external sanitizer available it is the
\* sanitizer's result for the assembled HTML and the configured
\* allowedTags; with sanitizeHTML on and no sanitizer it is the assembled
\* HTML without its <script>...</script> blocks, so the assembled HTML
\* itself when it holds no < of a script tag; with sanitizeHTML off it is
\* the assembled HTML unchanged and no sanitizer has been called
C17_ReturnFollowsConfiguration ==
    Returned =>
        /\ (options.sanitizeHTML /\ Purified) =>
              ret = DOMPurifySanitize(Assembled, options.allowedTags)
        /\ (options.sanitizeHTML /\ ~Purified) =>
              /\ ret = FallbackSanitize(Assembled)
              /\ ~Includes(Assembled, <<"<", "s">>) => ret = Assembled
              /\ Assembled = <<"<", "h", "1", ">", "<", "s", "c", "r", "i", "p", "t", ">", "x", "<", "/", "s", "c", "r", "i", "p", "t", ">", "<", "/", "h", "1", ">">> => ret = <<"<", "h", "1", ">", "<", "/", "h", "1", ">">>
        /\ ~options.sanitizeHTML =>
              /\ ret = Assembled
              /\ called = {"processLines"}

\* a parser built with sanitizeHTML off has returned a script element
C17_Witness ==
    /\ Returned
    /\ ~options.sanitizeHTML
    /\ lines = <<<<"#", " ", "<", "s", "c", "r", "i", "p", "t", ">", "x", "<", "/", "s", "c", "r", "i", "p", "t", ">">>>>
    /\ ret = <<"<", "h", "1", ">", "<", "s", "c", "r", "i", "p", "t", ">", "x", "<", "/", "s", "c", "r", "i", "p", "t", ">", "<", "/", "h", "1", ">">>
    /\ called = {"processLines"}

\* C18: parse keeps no state across calls.  No step of a call changes the
\* options; every call, the first one and every later one alike, starts
\* from the lines of its own text, line index 0 and an empty result, and
\* a guarded call returns '' whatever was parsed before
C18_CallsShareNoState ==
    [][ /\ options' = options
        /\ (pc = "idle" /\ pc' = "loop") =>
              /\ lines' = Split(Normalize(markdown'.str), "\n")
              /\ i' = 0
              /\ result' = <<>>
              /\ called' = {"processLines"}
        /\ (pc = "idle" /\ pc' = "done") => (ret' = <<>> /\ called' = {}) ]_vars

\* a second call on a parser that has returned from a call has started,
\* with the options the parser was built with
C18_Witness ==
    /\ pc = "loop"
    /\ last = NoCall
    /\ options = Construct([given |-> {"allowedTags"}, sanitizeHTML |-> TRUE, allowedTags |-> <<<<"p">>>>])
    /\ lines = <<<<"#", " ", "a">>>>
    /\ i = 0
    /\ result = <<>>

\* the block the fixed order of the matchers gives the start line when
\* the table matcher is passed over: header, fence, list, blockquote,
\* rule, and a paragraph when none of them matches
KindBehindTable ==
    IF headerMatch(StartLine).level > 0 THEN "header"
    ELSE IF IsFenceOpen(StartLine) THEN "fence"
    ELSE IF IsListStart(StartLine) THEN "list"
    ELSE IF IsQuoteLine(StartLine) THEN "blockquote"
    ELSE IF IsRule(StartLine) THEN "hr"
    ELSE "paragraph"

\* C19: at every line index the dispatcher emits the block of the first
\* matcher, in the order header, fence, table, list, blockquote, rule,
\* paragraph, whose pattern matches; whenever no table is produced at a
\* line, control falls through, so a line that matches the list, the
\* blockquote or the rule pattern is that block and no paragraph
C19_NoTableFallsThrough ==
    (Emitted /\ last.kind \notin {"table", "empty"}) =>
        last.kind = KindBehindTable

\* the lines of a text whatever way its line breaks are written: \r\n is
\* one break, and so is a \r or a \n on its own; cur is the line so far
RECURSIVE BreakLinesFrom(_, _, _)
BreakLinesFrom(s, p, cur) ==
    IF p > Len(s) THEN <<cur>>
    ELSE IF At(s, p, <<"\r", "\n">>) THEN <<cur>> \o BreakLinesFrom(s, p + 2, <<>>)
    ELSE IF s[p] \in {"\r", "\n"} THEN <<cur>> \o BreakLinesFrom(s, p + 1, <<>>)
    ELSE BreakLinesFrom(s, p + 1, Append(cur, s[p]))

\* C20: parse is invariant under the line-ending convention.  The lines
\* processLines works on are the lines of the text with \r\n, a lone \r
\* and \n each counted as one line break, none of them holds a \r, and
\* nothing else of the text reaches the output: a and # b on two lines
\* give the same two blocks however the break between them is written
C20_LineEndingsAreOneBreak ==
    (pc \in {"loop", "done"} /\ ~IsGuarded(markdown)) =>
        /\ lines = BreakLinesFrom(markdown.str, 1, <<>>)
        /\ \A k \in 1..Len(lines) : ~Includes(lines[k], <<"\r">>)
        /\ (i >= Len(lines) /\ markdown.str \in {<<"a">> \o br \o <<"#", " ", "b">> : br \in Breaks})
              => result = <<<<"<", "p", ">", "a", "<", "/", "p", ">">>, <<"<", "h", "1", ">", "b", "<", "/", "h", "1", ">">>>>

\* a text whose breaks are a \r\n pair and a lone \r has been parsed as
\* three lines
C20_Witness ==
    /\ pc = "done"
    /\ markdown.str = <<"a">> \o <<"\r", "\n", "\r">> \o <<"#", " ", "b">>
    /\ lines = <<<<"a">>, <<>>, <<"#", " ", "b">>>>
    /\ result = <<<<"<", "p", ">", "a", "<", "/", "p", ">">>, <<>>, <<"<", "h", "1", ">", "b", "<", "/", "h", "1", ">">>>>

(***************************************************************************)
(* Properties of the output sequence, of the rows of a table and of the    *)
(* items of a list.                                                        *)
(***************************************************************************)
\* C21: a blank line never adds an entry to the output sequence: the
\* leading blank lines are skipped, an empty paragraph is dropped, and so
\* every entry of result is a non-empty block and the joined output has
\* no empty segment between or behind its blocks
C21_NoEmptyEntry ==
    /\ \A k \in 1..Len(result) : Len(result[k]) > 0
    /\ last.kind = "skip" => result = <<>>

\* the cells of a row: the pieces between the pipes, trimmed, without the
\* empty piece before the first pipe and the one behind the last
OuterDropped(cells) ==
    SubSeq(cells,
           IF Len(cells) > 0 /\ cells[1] = <<>> THEN 2 ELSE 1,
           IF Len(cells) > 1 /\ cells[Len(cells)] = <<>> THEN Len(cells) - 1
           ELSE Len(cells))

CellsBetweenPipes(line) == OuterDropped(TrimAll(Split(line, "|")))

\* C22: the cells of a row are its pieces in order, each trimmed, without
\* the empty leading and trailing cells of the outer pipes alone; an
\* empty cell between two cells is kept, so the header row of a table
\* has one <th> for each of them, at its own column
C22_InnerEmptyCellIsKept ==
    last.kind = "table" =>
        /\ Len(HtmlLines) >= 4 + Len(CellsBetweenPipes(StartLine))
        /\ \A k \in 1..Len(CellsBetweenPipes(StartLine)) :
              HtmlLines[3 + k] = <<"<", "t", "h", ">">>
                  \o processInlineElements(CellsBetweenPipes(StartLine)[k])
                  \o <<"<", "/", "t", "h", ">">>
        /\ HtmlLines[4 + Len(CellsBetweenPipes(StartLine))] = <<"<", "/", "t", "r", ">">>

\* C23: a list renders flat.  A run of k >= 1 consumed list lines gives
\* one list element: its open tag, k <li> items, one for each line in
\* source order and each ending in the content of its line, and its close
\* tag; no second <ul> or <ol> is opened or closed in it, whatever the
\* indentation of the lines
C23_ListIsFlat ==
    (last.kind = "list" /\ last.nextIndex > last.start) =>
        /\ Len(HtmlLines) = Len(Consumed) + 2
        /\ HtmlLines[1] \in {<<"<", "u", "l", ">">>, <<"<", "o", "l", ">">>}
        /\ HtmlLines[Len(HtmlLines)] \in {<<"<", "/", "u", "l", ">">>, <<"<", "/", "o", "l", ">">>}
        /\ \A k \in 1..Len(Consumed) :
              /\ StartsWith(HtmlLines[k + 1], <<"<", "l", "i">>)
              /\ EndsWith(HtmlLines[k + 1],
                          processInlineElements(listItem(Consumed[k]).text) \o <<"<", "/", "l", "i", ">">>)
              /\ \A t \in {<<"<", "u", "l">>, <<"<", "o", "l">>, <<"<", "/", "u", "l">>, <<"<", "/", "o", "l">>} : ~Includes(HtmlLines[k + 1], t)

\* a list whose second line is indented has been emitted as two sibling
\* items
C23_Witness ==
    /\ last.kind = "list"
    /\ Consumed = <<<<"-", " ", "a">>, <<" ", " ", "-", " ", "a">>>>
    /\ last.html = <<"<", "u", "l", ">">> \o NL \o <<"<", "l", "i", ">", "a", "<", "/", "l", "i", ">">> \o NL \o <<"<", "l", "i", ">", "a", "<", "/", "l", "i", ">">> \o NL \o <<"<", "/", "u", "l", ">">>

(***************************************************************************)
(* Properties of the protected spans, of code spans, of raw tags and of    *)
(* the values written into attributes.                                     *)
(***************************************************************************)
\* C24: when escapeHTMLInText returns, every placeholder it made has been
\* put back: the text it returns for the lines of a paragraph holds no
\* __PROTECTED_n__ token, also when one protected span lies inside
\* another, and it is the text it was given when that holds no <
C24_NoPlaceholderRemains ==
    last.kind = "paragraph" =>
        /\ ~Includes(escapeHTMLInText(SpaceJoined(Consumed)), <<"_", "_", "P", "R", "O", "T", "E", "C", "T", "E", "D", "_">>)
        /\ ~Includes(SpaceJoined(Consumed), <<"<">>) =>
              escapeHTMLInText(SpaceJoined(Consumed)) = SpaceJoined(Consumed)

\* the position of the first code span of the line, 0 when it has none:
\* a backtick, one character or more that are no backtick, a backtick
CodeAt(line) ==
    FirstOr({p \in 1..Len(line) :
                /\ line[p] = Backtick
                /\ FirstIndexOf(line, p + 1, Backtick) <= Len(line)
                /\ FirstIndexOf(line, p + 1, Backtick) > p + 1}, 0)

\* the content of that code span
CodeContent(line) ==
    SubSeq(line, CodeAt(line) + 1, FirstIndexOf(line, CodeAt(line) + 1, Backtick) - 1)

\* C25: the content of an inline code span is escaped and then left alone
\* by every later inline stage: for a consumed line with a code span that
\* is no part of a link, the block holds <code>, the escaped content and
\* </code>, whatever emphasis characters the content holds
C25_CodeSpanIsLeftAlone ==
    last.kind \in InlineKinds =>
        \A k \in 1..Len(Consumed) :
            (CodeAt(Consumed[k]) # 0 /\ LinkAt(Consumed[k]) = 0) =>
                Includes(last.html,
                         <<"<", "c", "o", "d", "e", ">">> \o Escaped(CodeContent(Consumed[k])) \o <<"<", "/", "c", "o", "d", "e", ">">>)

\* C26: in every inline text unit a raw kbd tag is in the block as a
\* literal tag exactly when a consumed line holds both <kbd> and </kbd>,
\* and the raw tag <x>, which is not on the list, is never in the block
\* as a literal tag
C26_RawTagNeedsItsPair ==
    last.kind \in InlineKinds =>
        /\ Includes(last.html, <<"<", "k", "b", "d", ">">>)
              <=> \E k \in 1..Len(Consumed) :
                      /\ Includes(Consumed[k], <<"<", "k", "b", "d", ">">>)
                      /\ Includes(Consumed[k], <<"<", "/", "k", "b", "d", ">">>)
        /\ ~Includes(last.html, <<"<", "x", ">">>)

\* C27: with sanitizeHTML on and no external sanitizer, the returned
\* string holds no complete script block: no <script that a </script>
\* follows, whatever the assembled HTML was
C27_FallbackLeavesNoScript ==
    (Returned /\ options.sanitizeHTML /\ ~Purified) =>
        ~\E p \in 1..Len(ret) :
            /\ AtCI(ret, p, <<"<", "s", "c", "r", "i", "p", "t">>)
            /\ \E q \in (p + 1)..Len(ret) : AtCI(ret, q, <<"<", "/", "s", "c", "r", "i", "p", "t", ">">>)

\* the open tag of the first <a> element of the latest block, up to its >
ATag ==
    SubSeq(last.html,
           FirstOr({p \in 1..Len(last.html) : At(last.html, p, <<"<", "a", " ">>)}, 1),
           FirstIndexOf(last.html,
                        FirstOr({p \in 1..Len(last.html) : At(last.html, p, <<"<", "a", " ">>)}, 1),
                        ">"))

\* C28: the url of a link cannot end the attribute it is written into: for
\* a consumed line that is a link whose url holds no emphasis character,
\* the open tag of the <a> element holds the two double quotes around the
\* href value and no other, so the url adds no attribute to the tag
C28_UrlStaysInsideHref ==
    ( /\ last.kind \in InlineKinds
      /\ Len(Consumed) = 1
      /\ LinkAt(StartLine) # 0
      /\ \A k \in 1..Len(LinkUrl(StartLine)) :
            LinkUrl(StartLine)[k] \notin {"*", "_", "~"} )
        => /\ Includes(last.html, <<"<", "a", " ", "h", "r", "e", "f", "=", "\"">>)
           /\ Cardinality({k \in 1..Len(ATag) : ATag[k] = "\""}) = 2

(***************************************************************************)
(* The blocks of a run and the lines they are made of.                     *)
(***************************************************************************)
\* the lines from index a up to index b, b at most the last line
Taken(a, b) == Slice(lines, a, IF b > Len(lines) THEN Len(lines) ELSE b)

\* C29: the emitted blocks partition the document.  Every step of the
\* dispatcher starts at the line the step before it ended at and never
\* goes back; a step that emits nothing takes one blank line; a block is
\* made of the lines its step took and of no other, a paragraph taking
\* neither the blank line nor the block line its lookahead stopped at;
\* the blocks are appended to the output in the order of their steps; and
\* the run returns only when no line is left
C29_BlocksPartitionLines ==
    [][ /\ (pc = "loop" /\ pc' = "loop") =>
            /\ last'.start = i
            /\ last'.nextIndex = i'
            /\ i' >= i
            /\ last'.kind \in {"skip", "empty"} =>
                  /\ i' = i + 1
                  /\ IsBlank(lines[i + 1])
                  /\ last'.html = <<>>
            /\ result' = IF last'.kind = "skip" THEN result
                         ELSE Append(result, last'.html)
            /\ last'.kind = "paragraph" =>
                  /\ last'.html = ParagraphHTML(Taken(i, i'))
                  /\ \A k \in 1..Len(Taken(i, i')) : ~IsBlank(Taken(i, i')[k])
            /\ (last'.kind \in {"header", "fence", "table", "list", "blockquote", "hr"}
                  /\ i' > i) =>
                  last'.html = processBlockElement(Taken(i, i'), 0).html
        /\ (pc = "loop" /\ pc' = "done") => i >= Len(lines)
      ]_vars

\* a run has returned whose lines went into a paragraph, a block behind
\* it and a paragraph behind that
C29_Witness ==
    /\ Returned
    /\ Len(lines) = 3
    /\ Len(result) = 3
    /\ StartsWith(result[1], <<"<", "p", ">">>)
    /\ ~StartsWith(result[2], <<"<", "p", ">">>) /\ Len(result[2]) > 0
    /\ StartsWith(result[3], <<"<", "p", ">">>)
    /\ last.kind = "paragraph" /\ last.start = 2 /\ last.nextIndex = 3

(***************************************************************************)
(* The tags of the processors and the default list of the sanitizer.       *)
(***************************************************************************)
\* the tag names the block and inline processors write
EmittedTags ==
    {<<"p">>, <<"h", "1">>, <<"h", "2">>, <<"h", "3">>, <<"h", "4">>, <<"h", "5">>, <<"h", "6">>, <<"p", "r", "e">>, <<"c", "o", "d", "e">>, <<"t", "a", "b", "l", "e">>, <<"t", "h", "e", "a", "d">>,
     <<"t", "b", "o", "d", "y">>, <<"t", "r">>, <<"t", "h">>, <<"t", "d">>, <<"u", "l">>, <<"o", "l">>, <<"l", "i">>, <<"i", "n", "p", "u", "t">>, <<"b", "l", "o", "c", "k", "q", "u", "o", "t", "e">>, <<"h", "r">>,
     <<"a">>, <<"i", "m", "g">>, <<"s", "t", "r", "o", "n", "g">>, <<"e", "m">>, <<"d", "e", "l">>}

\* the name of the open or close tag at the < at position lt
TagNameAt(s, lt) ==
    SubSeq(s,
           IF At(s, lt + 1, <<"/">>) THEN lt + 2 ELSE lt + 1,
           SkipChars(s, IF At(s, lt + 1, <<"/">>) THEN lt + 2 ELSE lt + 1, WordChars) - 1)

\* the names of the tags of s
TagNames(s) == {TagNameAt(s, lt) : lt \in {k \in 1..Len(s) : s[k] = "<"}}

\* C30: every tag a processor writes into a block is on the allowedTags
\* list of the default configuration, so the allow-list sanitizer removes
\* no element the parser made
C30_EveryEmittedTagIsAllowed ==
    Emitted =>
        \A name \in TagNames(last.html) \cap EmittedTags :
            \E k \in 1..Len(options.allowedTags) : options.allowedTags[k] = name
====
